---- MODULE Spec2Model ----
(***************************************************************************)
(* Model of src/hansoft/sdk.h: the C wrappers that route every public      *)
(* operation of the Hansoft client through the HPMSdkFunctions function    *)
(* table, together with the threads that drive session_process in          *)
(* callback-driven mode.                                                   *)
(*                                                                         *)
(* The function table is the boundary to the native SDK: what an entry     *)
(* answers is an input of the model, drawn from the sets below.  What a    *)
(* wrapper does with the table (which entry it invokes, how often, with    *)
(* which arguments, what it hands back) is translated from the source.     *)
(***************************************************************************)
EXTENDS Integers, Sequences, FiniteSets, TLC

\* ---------------------------------------------------------------- bounds
MaxSession == 1
MaxID == 2
MaxData == 1
MaxPending == 2

\* ---------------------------------------------------------------- values
\* void *_pSession: 0 is NULL.
Sessions == 0..MaxSession
\* HPMUniqueID arguments.
IDs == 1..MaxID
\* Scalar data and input pointers (const HPMChar *, const struct *), by identity.
Data == 0..MaxData
\* HPMInt32 / HPMUInt32 flag arguments.
Flags == {0, 1}
\* HPMError kinds an entry of the table can answer.
Errors == {"SUCCESS", "AUTH_FAILURE", "NETWORK_FAILURE", "PROTOCOL_VERSION_MISMATCH",
           "NOT_FOUND", "PERMISSION_DENIED", "INVALID_ARGUMENT", "SERVER_BUSY", "INTERNAL"}
\* What an entry leaves in the caller's output slot.
\* the empty set is an unwritten slot.
Unset == {}
Outs == {Unset} \cup {{d} : d \in Data}
\* Answer of an entry that has an output parameter.
OutResp == [err : Errors, out : Outs]
\* Answer of an entry that has none.
ErrResp == [err : Errors, out : {Unset}]
\* Answer of SessionOpen: *_pError, the returned session, *_pExtendedErrorMessage.
OpenResp == [err : Errors, out : Sessions, ext : Flags]
\* Arguments of session_open, in the order of its parameter list: address, port,
\* database, resource name, password, blocking flag, need-process callback
\* (0 is NULL), SDK version, debug flag, session count, working directory,
\* certificate settings.
OpenConfigs == {<<a, 2, 3, 4, 5, b, cb, 8, d, 10, 11, 12>> : a \in Data, b \in Flags, cb \in Flags, d \in Flags}

Owner == "owner"
IO == "io"
Threads == {Owner, IO}
NoFrame == [op |-> "none"]

VARIABLES frame, pending, running
vars == <<frame, pending, running>>

\* frame    : the wrapper call the owner is in, NoFrame between calls: the
\*            operation, the caller's arguments, the table invocations made,
\*            what the table answered and what the wrapper hands back.
\* pending  : "work available" notifications posted and not yet drained.
\* running  : per thread, whether it is inside session_process.

\* ------------------------------------------------------ the wrappers
\* Each wrapper is the value of one call: resp is what the invoked table entry
\* answers, the other parameters are the wrapper's own, in declaration order.

session_open(resp, _pAddress, _Port, _pDatabase, _pResourceName, _pPassword, _bBlockOnOperations, _pNeedProcessCallback, _SDKVersion, _SDKDebug, _nSessions, _pWorkingDirectory, _pCertificateSettings) ==
    [calls |-> <<[entry |-> "SessionOpen", args |-> <<_pAddress, _Port, _pDatabase, _pResourceName, _pPassword, _bBlockOnOperations, _pNeedProcessCallback, _SDKVersion, _SDKDebug, _nSessions, _pWorkingDirectory, _pCertificateSettings>>]>>,
     ret |-> resp]

session_stop(resp, _pSession) ==
    [calls |-> <<[entry |-> "SessionStop", args |-> <<_pSession>>]>>,
     ret |-> resp]

session_close(resp, _pSession) ==
    [calls |-> <<[entry |-> "SessionClose", args |-> <<_pSession>>]>>,
     ret |-> resp]

session_process(resp, _pSession) ==
    [calls |-> <<[entry |-> "SessionProcess", args |-> <<_pSession>>]>>,
     ret |-> resp]

project_enum(resp, _pSession) ==
    [calls |-> <<[entry |-> "ProjectEnum", args |-> <<_pSession>>]>>,
     ret |-> resp]

project_util_get_backlog(resp, _pSession, _ProjectID) ==
    [calls |-> <<[entry |-> "ProjectUtilGetBacklog", args |-> <<_pSession, _ProjectID>>]>>,
     ret |-> resp]

project_get_milestones(resp, _pSession, _ProjectID) ==
    [calls |-> <<[entry |-> "ProjectGetMilestones", args |-> <<_pSession, _ProjectID>>]>>,
     ret |-> resp]

project_get_sprints(resp, _pSession, _ProjectID) ==
    [calls |-> <<[entry |-> "ProjectGetSprints", args |-> <<_pSession, _ProjectID>>]>>,
     ret |-> resp]

project_get_properties(resp, _pSession, _ProjectID) ==
    [calls |-> <<[entry |-> "ProjectGetProperties", args |-> <<_pSession, _ProjectID>>]>>,
     ret |-> resp]

project_workflow_enum(resp, _pSession, _ProjectID, _bOnlyNewestVersions) ==
    [calls |-> <<[entry |-> "ProjectWorkflowEnum", args |-> <<_pSession, _ProjectID, _bOnlyNewestVersions>>]>>,
     ret |-> resp]

project_workflow_get_settings(resp, _pSession, _ProjectID, _WorkflowID) ==
    [calls |-> <<[entry |-> "ProjectWorkflowGetSettings", args |-> <<_pSession, _ProjectID, _WorkflowID>>]>>,
     ret |-> resp]

project_custom_columns_get(resp, _pSession, _ProjectID) ==
    [calls |-> <<[entry |-> "ProjectCustomColumnsGet", args |-> <<_pSession, _ProjectID>>]>>,
     ret |-> resp]

project_resource_enum(resp, _pSession, _ProjectID) ==
    [calls |-> <<[entry |-> "ProjectResourceEnum", args |-> <<_pSession, _ProjectID>>]>>,
     ret |-> resp]

task_enum(resp, _pSession, _ContainerID) ==
    [calls |-> <<[entry |-> "TaskEnum", args |-> <<_pSession, _ContainerID>>]>>,
     ret |-> resp]

task_ref_enum(resp, _pSession, _ContainerID) ==
    [calls |-> <<[entry |-> "TaskRefEnum", args |-> <<_pSession, _ContainerID>>]>>,
     ret |-> resp]

task_get_description(resp, _pSession, _TaskID) ==
    [calls |-> <<[entry |-> "TaskGetDescription", args |-> <<_pSession, _TaskID>>]>>,
     ret |-> resp]

task_set_description(resp, _pSession, _TaskID, _pData) ==
    [calls |-> <<[entry |-> "TaskSetDescription", args |-> <<_pSession, _TaskID, _pData>>]>>,
     ret |-> resp]

task_get_linked_to_milestones(resp, _pSession, _TaskID) ==
    [calls |-> <<[entry |-> "TaskGetLinkedToMilestones", args |-> <<_pSession, _TaskID>>]>>,
     ret |-> resp]

task_set_linked_to_milestones(resp, _pSession, _TaskID, _pData) ==
    [calls |-> <<[entry |-> "TaskSetLinkedToMilestones", args |-> <<_pSession, _TaskID, _pData>>]>>,
     ret |-> resp]

task_get_linked_to_sprint(resp, _pSession, _TaskID) ==
    [calls |-> <<[entry |-> "TaskGetLinkedToSprint", args |-> <<_pSession, _TaskID>>]>>,
     ret |-> resp]

task_get_status(resp, _pSession, _TaskID) ==
    [calls |-> <<[entry |-> "TaskGetStatus", args |-> <<_pSession, _TaskID>>]>>,
     ret |-> resp]

task_set_status(resp, _pSession, _TaskID, _Data, _bGotoWorkflowStatus, _SetStatusFlags) ==
    [calls |-> <<[entry |-> "TaskSetStatus", args |-> <<_pSession, _TaskID, _Data, _bGotoWorkflowStatus, _SetStatusFlags>>]>>,
     ret |-> resp]

task_get_workflow(resp, _pSession, _TaskID) ==
    [calls |-> <<[entry |-> "TaskGetWorkflow", args |-> <<_pSession, _TaskID>>]>>,
     ret |-> resp]

task_get_workflow_status(resp, _pSession, _TaskID) ==
    [calls |-> <<[entry |-> "TaskGetWorkflowStatus", args |-> <<_pSession, _TaskID>>]>>,
     ret |-> resp]

task_set_workflow_status(resp, _pSession, _TaskID, _Data, _Flags) ==
    [calls |-> <<[entry |-> "TaskSetWorkflowStatus", args |-> <<_pSession, _TaskID, _Data, _Flags>>]>>,
     ret |-> resp]

task_create_unified(resp, _pSession, _ContainerID, _pCreateData) ==
    [calls |-> <<[entry |-> "TaskCreateUnified", args |-> <<_pSession, _ContainerID, _pCreateData>>]>>,
     ret |-> resp]

task_get_estimated_ideal_days(resp, _pSession, _TaskID) ==
    [calls |-> <<[entry |-> "TaskGetEstimatedIdealDays", args |-> <<_pSession, _TaskID>>]>>,
     ret |-> resp]

task_set_estimated_ideal_days(resp, _pSession, _TaskID, _pData) ==
    [calls |-> <<[entry |-> "TaskSetEstimatedIdealDays", args |-> <<_pSession, _TaskID, _pData>>]>>,
     ret |-> resp]

task_get_resource_allocation(resp, _pSession, _TaskID) ==
    [calls |-> <<[entry |-> "TaskGetResourceAllocation", args |-> <<_pSession, _TaskID>>]>>,
     ret |-> resp]

task_set_resource_allocation(resp, _pSession, _TaskID, _pData, _bGotoWorkflowStatusWhenAssigned, _SetStatusFlags) ==
    [calls |-> <<[entry |-> "TaskSetResourceAllocation", args |-> <<_pSession, _TaskID, _pData, _bGotoWorkflowStatusWhenAssigned, _SetStatusFlags>>]>>,
     ret |-> resp]

task_get_hyperlink(resp, _pSession, _TaskID) ==
    [calls |-> <<[entry |-> "TaskGetHyperlink", args |-> <<_pSession, _TaskID>>]>>,
     ret |-> resp]

task_set_hyperlink(resp, _pSession, _TaskID, _pData) ==
    [calls |-> <<[entry |-> "TaskSetHyperlink", args |-> <<_pSession, _TaskID, _pData>>]>>,
     ret |-> resp]

task_get_backlog_priority(resp, _pSession, _TaskID) ==
    [calls |-> <<[entry |-> "TaskGetBacklogPriority", args |-> <<_pSession, _TaskID>>]>>,
     ret |-> resp]

task_set_backlog_priority(resp, _pSession, _TaskID, _Data) ==
    [calls |-> <<[entry |-> "TaskSetBacklogPriority", args |-> <<_pSession, _TaskID, _Data>>]>>,
     ret |-> resp]

task_get_main_reference(resp, _pSession, _TaskID) ==
    [calls |-> <<[entry |-> "TaskGetMainReference", args |-> <<_pSession, _TaskID>>]>>,
     ret |-> resp]

task_ref_get_task(resp, _pSession, _TaskRefID) ==
    [calls |-> <<[entry |-> "TaskRefGetTask", args |-> <<_pSession, _TaskRefID>>]>>,
     ret |-> resp]

\* task_ref_get_container as a copy of task_ref_get_task whose table entry was not renamed.
task_ref_get_container_wrong_entry(resp, _pSession, _TaskRefID) ==
    [calls |-> <<[entry |-> "TaskRefGetTask", args |-> <<_pSession, _TaskRefID>>]>>,
     ret |-> resp]

task_ref_get_container(resp, _pSession, _TaskRefID) ==
    [calls |-> <<[entry |-> "TaskRefGetContainer", args |-> <<_pSession, _TaskRefID>>]>>,
     ret |-> resp]

resource_get_properties(resp, _pSession, _ResourceID) ==
    [calls |-> <<[entry |-> "ResourceGetProperties", args |-> <<_pSession, _ResourceID>>]>>,
     ret |-> resp]

util_get_no_milestone_id(resp, _pSession) ==
    [calls |-> <<[entry |-> "UtilGetNoMilestoneID", args |-> <<_pSession>>]>>,
     ret |-> resp]

localization_translate_string(resp, _pSession, _pLanguage, _pUntranslatedString) ==
    [calls |-> <<[entry |-> "LocalizationTranslateString", args |-> <<_pSession, _pLanguage, _pUntranslatedString>>]>>,
     ret |-> resp]

object_free(resp, _pSession, _pObject) ==
    [calls |-> <<[entry |-> "ObjectFree", args |-> <<_pSession, _pObject>>]>>,
     ret |-> resp]

\* ------------------------------------------------------ threads
\* The need-process callback running session_process on the thread that
\* invokes it, instead of notifying the owner.
onProcessCallback_direct(n, t) ==
    [pending |-> n, enters |-> {t}]

\* The need-process callback, invoked with n notifications outstanding on
\* thread t: it posts one "work available" notification for the owner and
\* starts nothing itself.  Result: the notification count and the threads it
\* puts inside session_process.
onProcessCallback(n, t) ==
    [pending |-> n + 1, enters |-> {}]

Init ==
    /\ frame = NoFrame
    /\ pending = 0
    /\ running = [t \in Threads |-> "idle"]

\* The owner's call of wrapper op: w is the wrapper's value for answer resp.
Record(op, args, resp, w) ==
    frame' = [op |-> op, args |-> args, calls |-> w.calls, answer |-> resp, ret |-> w.ret]

\* ------------------------------------------------------ actions
\* The owner calls session_open.
Call_session_open ==
    /\ frame = NoFrame
    /\ \E cfg \in OpenConfigs, resp \in OpenResp :
        Record("session_open", cfg, resp,
               session_open(resp, cfg[1], cfg[2], cfg[3], cfg[4], cfg[5], cfg[6], cfg[7], cfg[8], cfg[9], cfg[10], cfg[11], cfg[12]))
    /\ UNCHANGED <<pending, running>>

Call_session_stop ==
    /\ frame = NoFrame
    /\ \E _pSession \in Sessions, resp \in ErrResp :
        Record("session_stop", <<_pSession>>, resp, session_stop(resp, _pSession))
    /\ UNCHANGED <<pending, running>>

Call_session_close ==
    /\ frame = NoFrame
    /\ \E _pSession \in Sessions, resp \in ErrResp :
        Record("session_close", <<_pSession>>, resp, session_close(resp, _pSession))
    /\ UNCHANGED <<pending, running>>

\* The owner enters session_process and the table's SessionProcess is invoked.
\* The owner calls it to drain the notifications posted so far, or speculatively
\* with none; the draining is the owner's loop around the wrapper, not sdk.h.
Call_session_process ==
    /\ frame = NoFrame
    /\ \E _pSession \in Sessions, resp \in ErrResp :
        Record("session_process", <<_pSession>>, resp, session_process(resp, _pSession))
    /\ pending' = 0
    /\ running' = [running EXCEPT ![Owner] = "session_process"]

\* The wrapper the owner is in returns to its caller.
Return ==
    /\ frame # NoFrame
    /\ frame' = NoFrame
    /\ running' = [running EXCEPT ![Owner] = "idle"]
    /\ UNCHANGED pending

\* The SDK's I/O layer has work and invokes the need-process callback on its
\* own thread.
IONotify ==
    /\ running[IO] = "idle"
    /\ pending < MaxPending
    /\ LET r == onProcessCallback(pending, IO) IN
        /\ pending' = r.pending
        /\ running' = [t \in Threads |-> IF t \in r.enters THEN "session_process" ELSE running[t]]
    /\ UNCHANGED frame

Call_project_enum ==
    /\ frame = NoFrame
    /\ \E _pSession \in Sessions, resp \in OutResp :
        Record("project_enum", <<_pSession>>, resp, project_enum(resp, _pSession))
    /\ UNCHANGED <<pending, running>>

Call_project_util_get_backlog ==
    /\ frame = NoFrame
    /\ \E _pSession \in Sessions, _ProjectID \in IDs, resp \in OutResp :
        Record("project_util_get_backlog", <<_pSession, _ProjectID>>, resp, project_util_get_backlog(resp, _pSession, _ProjectID))
    /\ UNCHANGED <<pending, running>>

Call_project_get_milestones ==
    /\ frame = NoFrame
    /\ \E _pSession \in Sessions, _ProjectID \in IDs, resp \in OutResp :
        Record("project_get_milestones", <<_pSession, _ProjectID>>, resp, project_get_milestones(resp, _pSession, _ProjectID))
    /\ UNCHANGED <<pending, running>>

Call_project_get_sprints ==
    /\ frame = NoFrame
    /\ \E _pSession \in Sessions, _ProjectID \in IDs, resp \in OutResp :
        Record("project_get_sprints", <<_pSession, _ProjectID>>, resp, project_get_sprints(resp, _pSession, _ProjectID))
    /\ UNCHANGED <<pending, running>>

Call_project_get_properties ==
    /\ frame = NoFrame
    /\ \E _pSession \in Sessions, _ProjectID \in IDs, resp \in OutResp :
        Record("project_get_properties", <<_pSession, _ProjectID>>, resp, project_get_properties(resp, _pSession, _ProjectID))
    /\ UNCHANGED <<pending, running>>

Call_project_workflow_enum ==
    /\ frame = NoFrame
    /\ \E _pSession \in Sessions, _ProjectID \in IDs, _bOnlyNewestVersions \in Flags, resp \in OutResp :
        Record("project_workflow_enum", <<_pSession, _ProjectID, _bOnlyNewestVersions>>, resp, project_workflow_enum(resp, _pSession, _ProjectID, _bOnlyNewestVersions))
    /\ UNCHANGED <<pending, running>>

Call_project_workflow_get_settings ==
    /\ frame = NoFrame
    /\ \E _pSession \in Sessions, _ProjectID \in IDs, _WorkflowID \in Data, resp \in OutResp :
        Record("project_workflow_get_settings", <<_pSession, _ProjectID, _WorkflowID>>, resp, project_workflow_get_settings(resp, _pSession, _ProjectID, _WorkflowID))
    /\ UNCHANGED <<pending, running>>

Call_project_custom_columns_get ==
    /\ frame = NoFrame
    /\ \E _pSession \in Sessions, _ProjectID \in IDs, resp \in OutResp :
        Record("project_custom_columns_get", <<_pSession, _ProjectID>>, resp, project_custom_columns_get(resp, _pSession, _ProjectID))
    /\ UNCHANGED <<pending, running>>

Call_project_resource_enum ==
    /\ frame = NoFrame
    /\ \E _pSession \in Sessions, _ProjectID \in IDs, resp \in OutResp :
        Record("project_resource_enum", <<_pSession, _ProjectID>>, resp, project_resource_enum(resp, _pSession, _ProjectID))
    /\ UNCHANGED <<pending, running>>

Call_task_enum ==
    /\ frame = NoFrame
    /\ \E _pSession \in Sessions, _ContainerID \in IDs, resp \in OutResp :
        Record("task_enum", <<_pSession, _ContainerID>>, resp, task_enum(resp, _pSession, _ContainerID))
    /\ UNCHANGED <<pending, running>>

Call_task_ref_enum ==
    /\ frame = NoFrame
    /\ \E _pSession \in Sessions, _ContainerID \in IDs, resp \in OutResp :
        Record("task_ref_enum", <<_pSession, _ContainerID>>, resp, task_ref_enum(resp, _pSession, _ContainerID))
    /\ UNCHANGED <<pending, running>>

Call_task_get_description ==
    /\ frame = NoFrame
    /\ \E _pSession \in Sessions, _TaskID \in IDs, resp \in OutResp :
        Record("task_get_description", <<_pSession, _TaskID>>, resp, task_get_description(resp, _pSession, _TaskID))
    /\ UNCHANGED <<pending, running>>

Call_task_set_description ==
    /\ frame = NoFrame
    /\ \E _pSession \in Sessions, _TaskID \in IDs, _pData \in Data, resp \in ErrResp :
        Record("task_set_description", <<_pSession, _TaskID, _pData>>, resp, task_set_description(resp, _pSession, _TaskID, _pData))
    /\ UNCHANGED <<pending, running>>

Call_task_get_linked_to_milestones ==
    /\ frame = NoFrame
    /\ \E _pSession \in Sessions, _TaskID \in IDs, resp \in OutResp :
        Record("task_get_linked_to_milestones", <<_pSession, _TaskID>>, resp, task_get_linked_to_milestones(resp, _pSession, _TaskID))
    /\ UNCHANGED <<pending, running>>

Call_task_set_linked_to_milestones ==
    /\ frame = NoFrame
    /\ \E _pSession \in Sessions, _TaskID \in IDs, _pData \in Data, resp \in ErrResp :
        Record("task_set_linked_to_milestones", <<_pSession, _TaskID, _pData>>, resp, task_set_linked_to_milestones(resp, _pSession, _TaskID, _pData))
    /\ UNCHANGED <<pending, running>>

Call_task_get_linked_to_sprint ==
    /\ frame = NoFrame
    /\ \E _pSession \in Sessions, _TaskID \in IDs, resp \in OutResp :
        Record("task_get_linked_to_sprint", <<_pSession, _TaskID>>, resp, task_get_linked_to_sprint(resp, _pSession, _TaskID))
    /\ UNCHANGED <<pending, running>>

Call_task_get_status ==
    /\ frame = NoFrame
    /\ \E _pSession \in Sessions, _TaskID \in IDs, resp \in OutResp :
        Record("task_get_status", <<_pSession, _TaskID>>, resp, task_get_status(resp, _pSession, _TaskID))
    /\ UNCHANGED <<pending, running>>

Call_task_set_status ==
    /\ frame = NoFrame
    /\ \E _pSession \in Sessions, _TaskID \in IDs, _Data \in Data, _bGotoWorkflowStatus \in Flags, _SetStatusFlags \in Flags, resp \in ErrResp :
        Record("task_set_status", <<_pSession, _TaskID, _Data, _bGotoWorkflowStatus, _SetStatusFlags>>, resp, task_set_status(resp, _pSession, _TaskID, _Data, _bGotoWorkflowStatus, _SetStatusFlags))
    /\ UNCHANGED <<pending, running>>

Call_task_get_workflow ==
    /\ frame = NoFrame
    /\ \E _pSession \in Sessions, _TaskID \in IDs, resp \in OutResp :
        Record("task_get_workflow", <<_pSession, _TaskID>>, resp, task_get_workflow(resp, _pSession, _TaskID))
    /\ UNCHANGED <<pending, running>>

Call_task_get_workflow_status ==
    /\ frame = NoFrame
    /\ \E _pSession \in Sessions, _TaskID \in IDs, resp \in OutResp :
        Record("task_get_workflow_status", <<_pSession, _TaskID>>, resp, task_get_workflow_status(resp, _pSession, _TaskID))
    /\ UNCHANGED <<pending, running>>

Call_task_set_workflow_status ==
    /\ frame = NoFrame
    /\ \E _pSession \in Sessions, _TaskID \in IDs, _Data \in Data, _Flags \in Flags, resp \in ErrResp :
        Record("task_set_workflow_status", <<_pSession, _TaskID, _Data, _Flags>>, resp, task_set_workflow_status(resp, _pSession, _TaskID, _Data, _Flags))
    /\ UNCHANGED <<pending, running>>

Call_task_create_unified ==
    /\ frame = NoFrame
    /\ \E _pSession \in Sessions, _ContainerID \in IDs, _pCreateData \in Data, resp \in OutResp :
        Record("task_create_unified", <<_pSession, _ContainerID, _pCreateData>>, resp, task_create_unified(resp, _pSession, _ContainerID, _pCreateData))
    /\ UNCHANGED <<pending, running>>

Call_task_get_estimated_ideal_days ==
    /\ frame = NoFrame
    /\ \E _pSession \in Sessions, _TaskID \in IDs, resp \in OutResp :
        Record("task_get_estimated_ideal_days", <<_pSession, _TaskID>>, resp, task_get_estimated_ideal_days(resp, _pSession, _TaskID))
    /\ UNCHANGED <<pending, running>>

Call_task_set_estimated_ideal_days ==
    /\ frame = NoFrame
    /\ \E _pSession \in Sessions, _TaskID \in IDs, _pData \in Data, resp \in ErrResp :
        Record("task_set_estimated_ideal_days", <<_pSession, _TaskID, _pData>>, resp, task_set_estimated_ideal_days(resp, _pSession, _TaskID, _pData))
    /\ UNCHANGED <<pending, running>>

Call_task_get_resource_allocation ==
    /\ frame = NoFrame
    /\ \E _pSession \in Sessions, _TaskID \in IDs, resp \in OutResp :
        Record("task_get_resource_allocation", <<_pSession, _TaskID>>, resp, task_get_resource_allocation(resp, _pSession, _TaskID))
    /\ UNCHANGED <<pending, running>>

Call_task_set_resource_allocation ==
    /\ frame = NoFrame
    /\ \E _pSession \in Sessions, _TaskID \in IDs, _pData \in Data, _bGotoWorkflowStatusWhenAssigned \in Flags, _SetStatusFlags \in Flags, resp \in ErrResp :
        Record("task_set_resource_allocation", <<_pSession, _TaskID, _pData, _bGotoWorkflowStatusWhenAssigned, _SetStatusFlags>>, resp, task_set_resource_allocation(resp, _pSession, _TaskID, _pData, _bGotoWorkflowStatusWhenAssigned, _SetStatusFlags))
    /\ UNCHANGED <<pending, running>>

Call_task_get_hyperlink ==
    /\ frame = NoFrame
    /\ \E _pSession \in Sessions, _TaskID \in IDs, resp \in OutResp :
        Record("task_get_hyperlink", <<_pSession, _TaskID>>, resp, task_get_hyperlink(resp, _pSession, _TaskID))
    /\ UNCHANGED <<pending, running>>

Call_task_set_hyperlink ==
    /\ frame = NoFrame
    /\ \E _pSession \in Sessions, _TaskID \in IDs, _pData \in Data, resp \in ErrResp :
        Record("task_set_hyperlink", <<_pSession, _TaskID, _pData>>, resp, task_set_hyperlink(resp, _pSession, _TaskID, _pData))
    /\ UNCHANGED <<pending, running>>

Call_task_get_backlog_priority ==
    /\ frame = NoFrame
    /\ \E _pSession \in Sessions, _TaskID \in IDs, resp \in OutResp :
        Record("task_get_backlog_priority", <<_pSession, _TaskID>>, resp, task_get_backlog_priority(resp, _pSession, _TaskID))
    /\ UNCHANGED <<pending, running>>

Call_task_set_backlog_priority ==
    /\ frame = NoFrame
    /\ \E _pSession \in Sessions, _TaskID \in IDs, _Data \in Data, resp \in ErrResp :
        Record("task_set_backlog_priority", <<_pSession, _TaskID, _Data>>, resp, task_set_backlog_priority(resp, _pSession, _TaskID, _Data))
    /\ UNCHANGED <<pending, running>>

Call_task_get_main_reference ==
    /\ frame = NoFrame
    /\ \E _pSession \in Sessions, _TaskID \in IDs, resp \in OutResp :
        Record("task_get_main_reference", <<_pSession, _TaskID>>, resp, task_get_main_reference(resp, _pSession, _TaskID))
    /\ UNCHANGED <<pending, running>>

Call_task_ref_get_task ==
    /\ frame = NoFrame
    /\ \E _pSession \in Sessions, _TaskRefID \in IDs, resp \in OutResp :
        Record("task_ref_get_task", <<_pSession, _TaskRefID>>, resp, task_ref_get_task(resp, _pSession, _TaskRefID))
    /\ UNCHANGED <<pending, running>>

Call_task_ref_get_container ==
    /\ frame = NoFrame
    /\ \E _pSession \in Sessions, _TaskRefID \in IDs, resp \in OutResp :
        Record("task_ref_get_container", <<_pSession, _TaskRefID>>, resp, task_ref_get_container(resp, _pSession, _TaskRefID))
    /\ UNCHANGED <<pending, running>>

Call_resource_get_properties ==
    /\ frame = NoFrame
    /\ \E _pSession \in Sessions, _ResourceID \in IDs, resp \in OutResp :
        Record("resource_get_properties", <<_pSession, _ResourceID>>, resp, resource_get_properties(resp, _pSession, _ResourceID))
    /\ UNCHANGED <<pending, running>>

Call_util_get_no_milestone_id ==
    /\ frame = NoFrame
    /\ \E _pSession \in Sessions, resp \in OutResp :
        Record("util_get_no_milestone_id", <<_pSession>>, resp, util_get_no_milestone_id(resp, _pSession))
    /\ UNCHANGED <<pending, running>>

Call_localization_translate_string ==
    /\ frame = NoFrame
    /\ \E _pSession \in Sessions, _pLanguage \in Data, _pUntranslatedString \in Data, resp \in OutResp :
        Record("localization_translate_string", <<_pSession, _pLanguage, _pUntranslatedString>>, resp, localization_translate_string(resp, _pSession, _pLanguage, _pUntranslatedString))
    /\ UNCHANGED <<pending, running>>

Call_object_free ==
    /\ frame = NoFrame
    /\ \E _pSession \in Sessions, _pObject \in Data, resp \in OutResp :
        Record("object_free", <<_pSession, _pObject>>, resp, object_free(resp, _pSession, _pObject))
    /\ UNCHANGED <<pending, running>>

Next ==
    \/ Call_session_open
    \/ Call_session_stop
    \/ Call_session_close
    \/ Call_session_process
    \/ Return
    \/ IONotify
    \/ Call_project_enum
    \/ Call_project_util_get_backlog
    \/ Call_project_get_milestones
    \/ Call_project_get_sprints
    \/ Call_project_get_properties
    \/ Call_project_workflow_enum
    \/ Call_project_workflow_get_settings
    \/ Call_project_custom_columns_get
    \/ Call_project_resource_enum
    \/ Call_task_enum
    \/ Call_task_ref_enum
    \/ Call_task_get_description
    \/ Call_task_set_description
    \/ Call_task_get_linked_to_milestones
    \/ Call_task_set_linked_to_milestones
    \/ Call_task_get_linked_to_sprint
    \/ Call_task_get_status
    \/ Call_task_set_status
    \/ Call_task_get_workflow
    \/ Call_task_get_workflow_status
    \/ Call_task_set_workflow_status
    \/ Call_task_create_unified
    \/ Call_task_get_estimated_ideal_days
    \/ Call_task_set_estimated_ideal_days
    \/ Call_task_get_resource_allocation
    \/ Call_task_set_resource_allocation
    \/ Call_task_get_hyperlink
    \/ Call_task_set_hyperlink
    \/ Call_task_get_backlog_priority
    \/ Call_task_set_backlog_priority
    \/ Call_task_get_main_reference
    \/ Call_task_ref_get_task
    \/ Call_task_ref_get_container
    \/ Call_resource_get_properties
    \/ Call_util_get_no_milestone_id
    \/ Call_localization_translate_string
    \/ Call_object_free

Spec == Init /\ [][Next]_vars

\* ------------------------------------------------------ properties
\* The table entry that belongs to each public operation.
MatchingEntry(op) ==
    CASE op = "session_open" -> "SessionOpen"
      [] op = "session_process" -> "SessionProcess"
      [] op = "session_stop" -> "SessionStop"
      [] op = "session_close" -> "SessionClose"
      [] op = "project_enum" -> "ProjectEnum"
      [] op = "project_util_get_backlog" -> "ProjectUtilGetBacklog"
      [] op = "project_get_milestones" -> "ProjectGetMilestones"
      [] op = "project_get_sprints" -> "ProjectGetSprints"
      [] op = "project_get_properties" -> "ProjectGetProperties"
      [] op = "project_workflow_enum" -> "ProjectWorkflowEnum"
      [] op = "project_workflow_get_settings" -> "ProjectWorkflowGetSettings"
      [] op = "project_custom_columns_get" -> "ProjectCustomColumnsGet"
      [] op = "project_resource_enum" -> "ProjectResourceEnum"
      [] op = "task_enum" -> "TaskEnum"
      [] op = "task_ref_enum" -> "TaskRefEnum"
      [] op = "task_get_description" -> "TaskGetDescription"
      [] op = "task_set_description" -> "TaskSetDescription"
      [] op = "task_get_linked_to_milestones" -> "TaskGetLinkedToMilestones"
      [] op = "task_set_linked_to_milestones" -> "TaskSetLinkedToMilestones"
      [] op = "task_get_linked_to_sprint" -> "TaskGetLinkedToSprint"
      [] op = "task_get_status" -> "TaskGetStatus"
      [] op = "task_set_status" -> "TaskSetStatus"
      [] op = "task_get_workflow" -> "TaskGetWorkflow"
      [] op = "task_get_workflow_status" -> "TaskGetWorkflowStatus"
      [] op = "task_set_workflow_status" -> "TaskSetWorkflowStatus"
      [] op = "task_create_unified" -> "TaskCreateUnified"
      [] op = "task_get_estimated_ideal_days" -> "TaskGetEstimatedIdealDays"
      [] op = "task_set_estimated_ideal_days" -> "TaskSetEstimatedIdealDays"
      [] op = "task_get_resource_allocation" -> "TaskGetResourceAllocation"
      [] op = "task_set_resource_allocation" -> "TaskSetResourceAllocation"
      [] op = "task_get_hyperlink" -> "TaskGetHyperlink"
      [] op = "task_set_hyperlink" -> "TaskSetHyperlink"
      [] op = "task_get_backlog_priority" -> "TaskGetBacklogPriority"
      [] op = "task_set_backlog_priority" -> "TaskSetBacklogPriority"
      [] op = "task_get_main_reference" -> "TaskGetMainReference"
      [] op = "task_ref_get_task" -> "TaskRefGetTask"
      [] op = "task_ref_get_container" -> "TaskRefGetContainer"
      [] op = "resource_get_properties" -> "ResourceGetProperties"
      [] op = "util_get_no_milestone_id" -> "UtilGetNoMilestoneID"
      [] op = "localization_translate_string" -> "LocalizationTranslateString"
      [] op = "object_free" -> "ObjectFree"

TypeOK ==
    /\ pending \in 0..MaxPending
    /\ running \in [Threads -> {"idle", "session_process"}]
    /\ frame = NoFrame \/ frame.ret.err \in Errors

\* C10: every public operation invokes its own matching entry of the function
\* table exactly once, with the caller's arguments unchanged, and returns that
\* entry's Error and output unchanged (no retry, no recovery, no replaced error).
PassThrough ==
    frame # NoFrame =>
        /\ Len(frame.calls) = 1
        /\ frame.calls[1].entry = MatchingEntry(frame.op)
        /\ frame.calls[1].args = frame.args
        /\ frame.ret = frame.answer

\* A retryable error answered by the table has come back from a wrapper as is.
PassThroughWitness ==
    /\ frame # NoFrame
    /\ frame.op = "task_ref_get_container"
    /\ frame.answer.err = "SERVER_BUSY"
    /\ frame.ret.err = "SERVER_BUSY"

====
